---- MODULE Spec2Model ----
(***************************************************************************)
(* A model of app.py, a Streamlit daily planner: the priority score        *)
(* (calculate_priority_score), the record store (load_tasks / save_tasks   *)
(* over tasks.csv) and the handlers of the script that add, edit, complete *)
(* and delete records of st.session_state.tasks_df.                        *)
(*                                                                         *)
(* Time is counted in minutes. Every timestamp of the model is a multiple  *)
(* of a quarter of an hour, and so is every duration. Python computes the  *)
(* score in binary floating point; the model computes it in exact          *)
(* rationals <<numerator, denominator>> and rounds once, at the end, as    *)
(* round(total_score, 2) does. On the quarter-hour grid of the model the   *)
(* two agree on every input (the exact total never falls on a tie          *)
(* x.xx5 that the floating-point error could tip the other way).           *)
(***************************************************************************)
EXTENDS Integers, Sequences, FiniteSets, TLC

VARIABLES
    tasks_df,    \* st.session_state.tasks_df: the rows, position = index label
    ids,         \* ghost: the identity of the record at each position
    csv,         \* the content of tasks.csv
    edit_mode,   \* st.session_state.edit_mode
    now,         \* the wall clock, datetime.now()
    top_tasks,   \* the TOP3 view as last rendered: <<[idx, score], ...>>
    df_pending,  \* the full pending list as last rendered
    last_op,     \* ghost: what the last script run did
    edit_target, \* ghost: the identity of the record whose edit button set edit_mode
    outcome,     \* the outcome of load_tasks() at the start, and the file it read
    call,        \* the last call of calculate_priority_score, with its locals
    prev         \* the call before it

vars == <<tasks_df, ids, csv, edit_mode, now, top_tasks, df_pending, last_op,
          edit_target, outcome, call, prev>>

appVars == <<tasks_df, ids, csv, edit_mode, now, top_tasks, df_pending, last_op,
             edit_target>>

scoreVars == <<call, prev>>

----------------------------------------------------------------------------
(* Bounds of the model, in quarter hours where they bound a time. *)

MaxNowTick == 4

MaxDeadlineTick == 44

MaxDurationTick == 10

MaxFileRows == 2

MaxTasks == 2

MaxClockTick == 1

MaxRankDeadlineTick == 8

Minutes(k) == 15 * k

ScoreNows == {Minutes(k) : k \in 0..MaxNowTick}

ScoreDeadlines == {Minutes(k) : k \in 0..MaxDeadlineTick}

ScoreDurations == {Minutes(k) : k \in -1..MaxDurationTick}

----------------------------------------------------------------------------
(* Exact rationals <<n, d>> with d > 0, for Python's float arithmetic. *)

RECURSIVE Gcd(_, _)
Gcd(a, b) == IF b = 0 THEN a ELSE Gcd(b, a % b)

Abs(n) == IF n < 0 THEN 0 - n ELSE n

\* n / d in lowest terms (TLC's integers are 32 bits wide: the terms stay small)
Rat(n, d) == LET g == Gcd(Abs(n), d) IN <<n \div g, d \div g>>

RatLeq(a, b) == a[1] * b[2] <= b[1] * a[2]

RatMax(a, b) == IF RatLeq(b, a) THEN a ELSE b

RatMul(a, b) == Rat(a[1] * b[1], a[2] * b[2])

RatAdd(a, b) == Rat(a[1] * b[2] + b[1] * a[2], a[2] * b[2])

\* a / b for b > 0
RatDiv(a, b) == Rat(a[1] * b[2], a[2] * b[1])

RatEq(a, b) == a[1] * b[2] = b[1] * a[2]

\* round(x, 2), as a whole number of hundredths: to the nearest, a tie to even.
Round2(x) ==
    LET n == 100 * x[1]
        q == n \div x[2]
        r == n % x[2]
    IN  IF 2 * r < x[2] THEN q
        ELSE IF 2 * r > x[2] THEN q + 1
        ELSE IF q % 2 = 0 THEN q ELSE q + 1

----------------------------------------------------------------------------
(* calculate_priority_score(deadline, duration), with the clock it reads. *)

\* (deadline - now).total_seconds() / 3600
time_until_deadline(deadline, clock) == Rat((deadline - clock) * 60, 3600)

urgency_strict(t) ==
    IF t[1] < 0 THEN Rat(1000, 1)
    ELSE RatDiv(Rat(100, 1), RatMax(t, Rat(1, 1)))

urgency_ceiling100(t) ==
    IF RatLeq(t, Rat(0, 1)) THEN Rat(100, 1)
    ELSE RatDiv(Rat(100, 1), RatMax(t, Rat(1, 1)))

urgency_score(t) ==
    IF RatLeq(t, Rat(0, 1)) THEN Rat(1000, 1)
    ELSE RatDiv(Rat(100, 1), RatMax(t, Rat(1, 1)))

efficiency_floor1(duration) ==
    RatDiv(Rat(50, 1), RatMax(Rat(duration, 60), Rat(1, 1)))

efficiency_times(duration) ==
    RatMul(Rat(50, 1), RatMax(Rat(duration, 60), Rat(1, 2)))

efficiency_score(duration) ==
    RatDiv(Rat(50, 1), RatMax(Rat(duration, 60), Rat(1, 2)))

total_score(urgency, efficiency) ==
    RatAdd(RatMul(urgency, Rat(7, 10)), RatMul(efficiency, Rat(3, 10)))

calculate_priority_score(deadline, duration, clock) ==
    Round2(total_score(urgency_score(time_until_deadline(deadline, clock)),
                       efficiency_score(duration)))

\* One call, with the values of its local variables.
ScoreCall(deadline, duration, clock) ==
    [made |-> TRUE, deadline |-> deadline, duration |-> duration, now |-> clock,
     urgency_score |-> urgency_score(time_until_deadline(deadline, clock)),
     efficiency_score |-> efficiency_score(duration),
     ret |-> calculate_priority_score(deadline, duration, clock)]

NoCall(deadline, duration, clock) ==
    [made |-> FALSE, deadline |-> deadline, duration |-> duration, now |-> clock,
     urgency_score |-> Rat(0, 1), efficiency_score |-> Rat(0, 1), ret |-> 0]

----------------------------------------------------------------------------
(* The record store: tasks.csv and what pandas reads from and writes to it. *)
(* The columns are named as the data model names them: name is the column   *)
(* of the task name, duration the minutes, deadline the due time, category, *)
(* completed, and Type.                                                     *)
(*                                                                          *)
(* A file is [exists, columns, rows]: rows is the sequence of its lines     *)
(* after the header, each a function from the file's columns to the text of *)
(* the cell. Every file of the model has the columns name, deadline and     *)
(* category; the three that load_tasks back-fills may be absent.            *)

Columns == {"name", "duration", "deadline", "category", "completed", "Type"}

BackfilledColumns == {"Type", "duration", "completed"}

\* float('nan'), what read_csv makes of an empty cell
NaN == "<NaN>"

\* pd.NaT, what to_datetime makes of NaN
NaT == 0 - 1

\* The texts read_csv takes for a missing value.
NaStrings == {"", "NA", "NaN", "nan", "null", "NULL", "N/A", "n/a"}

TrueTexts == {"True", "TRUE", "true"}

FalseTexts == {"False", "FALSE", "false"}

\* The timestamps and the whole numbers a cell of the model may spell.
Timestamps == {Minutes(k) : k \in 0..(MaxClockTick + 1)}

Numerals == {Minutes(k) : k \in 0..MaxDurationTick}

\* str(datetime), for a timestamp in minutes: the day, the hour, the minute
FormatTs(t) ==
    "D" \o ToString(t \div 1440) \o " " \o ToString((t % 1440) \div 60)
        \o ":" \o ToString(t % 60)

IsTsText(text) == \E t \in Timestamps : FormatTs(t) = text

ParseTs(text) == CHOOSE t \in Timestamps : FormatTs(t) = text

IsIntText(text) == \E n \in Numerals : ToString(n) = text

ParseInt(text) == CHOOSE n \in Numerals : ToString(n) = text

\* The cells of one column, top to bottom.
ColumnCells(file, column) == [i \in 1..Len(file.rows) |-> file.rows[i][column]]

\* read_csv on a column of text: NaN for a missing value, the text otherwise.
read_str(text) == IF text \in NaStrings THEN NaN ELSE text

\* read_csv on the cell i of a column it tries as booleans: the column is
\* bool when every cell spells one, object with bools and NaN when the others
\* are missing values, and object with the texts themselves as soon as one
\* cell spells anything else.
read_bool(cells, i) ==
    LET spelt(t) == t \in TrueTexts \cup FalseTexts
        allBool == \A j \in 1..Len(cells) : spelt(cells[j]) \/ cells[j] \in NaStrings
    IN  IF cells[i] \in NaStrings THEN [py |-> "float", v |-> NaN]
        ELSE IF allBool
             THEN [py |-> "bool",
                   v |-> IF cells[i] \in TrueTexts THEN "True" ELSE "False"]
             ELSE [py |-> "str", v |-> cells[i]]

\* astype(bool) on one object: bool(x). NaN and every non-empty text are true.
astype_bool(x) ==
    IF x.py = "bool" THEN x.v
    ELSE IF x.py = "str" /\ x.v = "" THEN "False"
    ELSE "True"

\* to_datetime on one cell
to_datetime(text) == IF text \in NaStrings THEN NaT ELSE ParseTs(text)

\* The value load_tasks gives a column the file lacks (lines 23, 25, 27).
default_confused(column) ==
    IF column = "Type" THEN "Task"
    ELSE IF column = "duration" THEN 0
    ELSE "False"

default_value(column) ==
    IF column = "Type" THEN "Task"
    ELSE IF column = "duration" THEN 30
    ELSE "False"

\* The columns of the frame after the back-fill (lines 22 to 27).
backfilled(file) ==
    file.columns \cup {c \in BackfilledColumns : c \notin file.columns}

\* to_datetime raises on a text that is no timestamp.
deadline_raises(file) ==
    \E i \in 1..Len(file.rows) :
        /\ file.rows[i]["deadline"] \notin NaStrings
        /\ ~IsTsText(file.rows[i]["deadline"])

\* astype(int) raises on NaN and on a text that is no whole number.
duration_raises(file) ==
    /\ "duration" \in file.columns
    /\ \E i \in 1..Len(file.rows) : ~IsIntText(file.rows[i]["duration"])

\* The row i of the frame load_tasks returns.
loaded_row(file, i) ==
    LET row == file.rows[i]
    IN  [name |-> read_str(row["name"]),
         duration |-> IF "duration" \in file.columns
                      THEN ParseInt(row["duration"])
                      ELSE default_value("duration"),
         deadline |-> to_datetime(row["deadline"]),
         category |-> read_str(row["category"]),
         completed |-> IF "completed" \in file.columns
                       THEN astype_bool(read_bool(ColumnCells(file, "completed"), i))
                       ELSE default_value("completed"),
         Type |-> IF "Type" \in file.columns
                  THEN read_str(row["Type"])
                  ELSE default_value("Type")]

\* load_tasks(): [status, df]. A missing file and a file without rows give
\* the empty frame; an exception leaves no frame.
load_tasks(file) ==
    IF ~file.exists THEN [status |-> "ok", df |-> <<>>]
    ELSE IF file.rows = <<>> THEN [status |-> "ok", df |-> <<>>]
    ELSE IF ~({"deadline", "duration", "completed"} \subseteq backfilled(file))
         THEN [status |-> "error", df |-> <<>>]
    ELSE IF deadline_raises(file) \/ duration_raises(file)
         THEN [status |-> "error", df |-> <<>>]
    ELSE [status |-> "ok",
          df |-> [i \in 1..Len(file.rows) |-> loaded_row(file, i)]]

\* The text to_csv writes for one value of a column.
to_csv_cell(column, value) ==
    IF column = "duration" THEN ToString(value)
    ELSE IF column = "deadline"
         THEN (IF value = NaT THEN "" ELSE FormatTs(value))
    ELSE IF column = "completed"
         THEN (IF value \in {"True", "False"} THEN value ELSE "")
    ELSE IF value = NaN THEN "" ELSE value

\* df.to_csv(CSV_FILE, index=False): the header and every row, in order.
to_csv(df) ==
    [exists |-> TRUE,
     columns |-> Columns,
     rows |-> [i \in 1..Len(df) |->
                 [c \in Columns |-> to_csv_cell(c, df[i][c])]]]

save_tasks(df) == to_csv(df)

----------------------------------------------------------------------------
(* The state of the application before any file is read or any run made;   *)
(* the specifications of the scorer and of the store start from it.        *)

NoEdit == <<"None", 0>>

MissingFile == [exists |-> FALSE, columns |-> {}, rows |-> <<>>]

NoOutcome == [status |-> "none", source |-> MissingFile]

AppIdle ==
    /\ tasks_df = <<>>
    /\ ids = <<>>
    /\ csv = MissingFile
    /\ edit_mode = NoEdit
    /\ now = 0
    /\ top_tasks = <<>>
    /\ df_pending = <<>>
    /\ last_op = "start"
    /\ edit_target = 0

----------------------------------------------------------------------------
(* The script. Each action is one run of app.py on one event of the page,  *)
(* from the handler of the event to the end of the run that renders the    *)
(* page again (st.rerun() starts that run at once). The index labels of    *)
(* tasks_df are always 0..n-1 (ignore_index, reset_index): the model calls *)
(* the row of label k row k+1 and uses the position for the label.         *)

\* What the widgets of the forms offer, cut down to a few values.
Names == {"a", " "}

Durations == {Minutes(2), Minutes(8)}

Deadlines == {Minutes(1), Minutes(2)}

Categories == {"Work"}

ItemTypes == {"Task", "Event"}

Clock == {Minutes(k) : k \in 0..MaxClockTick}

\* task_name.strip(): of the names offered, " " is all blanks.
strip(name) == IF name = " " THEN "" ELSE name

\* .dt.date / .date(): the day of a timestamp
date(t) == t \div 1440

IsPending(row) == row["Type"] = "Task" /\ row["completed"] = "False"

IsCompleted(row) == row["Type"] = "Task" /\ row["completed"] = "True"

IsEvent(row) == row["Type"] = "Event"

\* df.sort_values(score, ascending=False) on [idx, score] entries: the
\* highest score first, equal scores in the order of the frame (for the few
\* rows of a page numpy sorts by insertion, which keeps that order).
RECURSIVE InsertDesc(_, _)
InsertDesc(sorted, e) ==
    IF sorted = <<>> THEN <<e>>
    ELSE IF Head(sorted).score >= e.score
         THEN <<Head(sorted)>> \o InsertDesc(Tail(sorted), e)
         ELSE <<e>> \o sorted

RECURSIVE sort_values(_)
sort_values(entries) ==
    IF entries = <<>> THEN <<>>
    ELSE InsertDesc(sort_values(SubSeq(entries, 1, Len(entries) - 1)),
                    entries[Len(entries)])

\* The labels of the rows the mask (Type == "Task") & (completed == False)
\* keeps, in the order of the frame.
pending_labels(df) ==
    LET all == [i \in 1..Len(df) |-> i]
        kept(i) == IsPending(df[i])
    IN  SelectSeq(all, kept)

\* The pending Task rows with the score each gets at the clock read, sorted
\* (lines 192 to 202 and again lines 281 to 291).
pending_sorted(df, clock) ==
    LET labels == pending_labels(df)
    IN  sort_values([k \in 1..Len(labels) |->
           [idx |-> labels[k],
            score |-> calculate_priority_score(df[labels[k]]["deadline"],
                                               df[labels[k]]["duration"], clock)]])

\* df_pending.head(3)
head3(view) == SubSeq(view, 1, IF Len(view) < 3 THEN Len(view) ELSE 3)

Idx(view) == {view[k].idx : k \in 1..Len(view)}

\* Whether the page shows row idx in the list of a view, at the clock read.
Shown(view, idx, df, clock) ==
    /\ idx \in 1..Len(df)
    /\ IF view = "event_today"
          THEN IsEvent(df[idx]) /\ date(df[idx]["deadline"]) = date(clock)
       ELSE IF view = "top_task"
          THEN idx \in Idx(head3(pending_sorted(df, clock)))
       ELSE IF view = "pending" THEN IsPending(df[idx])
       ELSE IF view = "completed" THEN IsCompleted(df[idx])
       ELSE IsEvent(df[idx])

\* The rest of a run: the TOP3 and the full pending list are computed one
\* after the other, each calling calculate_priority_score, which reads
\* datetime.now() itself; the clock may move on between the two.
Render(df) ==
    \E later \in {now, now + Minutes(1)} \cap Clock :
        /\ top_tasks' = head3(pending_sorted(df, now))
        /\ df_pending' = pending_sorted(df, later)
        /\ now' = later

\* The smallest identity no record of the frame has.
FreshId == CHOOSE u \in 1..(Len(ids) + 1) :
               /\ \A i \in 1..Len(ids) : ids[i] # u
               /\ \A v \in 1..(u - 1) : \E i \in 1..Len(ids) : ids[i] = v

\* df.drop(idx).reset_index(drop=True)
drop(seq, idx) == [i \in 1..(Len(seq) - 1) |-> IF i < idx THEN seq[i] ELSE seq[i + 1]]

Init ==
    /\ csv = MissingFile
    /\ tasks_df = load_tasks(MissingFile).df
    /\ outcome = [status |-> load_tasks(MissingFile).status, source |-> MissingFile]
    /\ ids = <<>>
    /\ edit_mode = NoEdit
    /\ now = 0
    /\ top_tasks = <<>>
    /\ df_pending = <<>>
    /\ last_op = "start"
    /\ edit_target = 0
    /\ call = NoCall(0, 0, 0)
    /\ prev = NoCall(0, 0, 0)

\* add_task_form submitted (lines 85 to 104)
AddTask(item_type, task_name, task_duration, task_deadline, task_category) ==
    /\ Len(tasks_df) < MaxTasks
    /\ IF strip(task_name) = ""
       THEN /\ last_op' = "add_rejected"
            /\ UNCHANGED <<tasks_df, ids, csv>>
            /\ Render(tasks_df)
       ELSE LET new_task ==
                   [name |-> task_name,
                    duration |-> IF item_type = "Task" THEN task_duration ELSE 0,
                    deadline |-> task_deadline,
                    category |-> task_category,
                    completed |-> IF item_type = "Task" THEN "False" ELSE "None",
                    Type |-> item_type]
                df == Append(tasks_df, new_task)
            IN  /\ tasks_df' = df
                /\ ids' = Append(ids, FreshId)
                /\ csv' = save_tasks(df)
                /\ last_op' = "add"
                /\ Render(df)
    /\ UNCHANGED <<edit_mode, edit_target, outcome, scoreVars>>

\* The edit button of a row (lines 173, 262, 335, 426)
EnterEdit(view, idx) ==
    /\ view \in {"event_today", "top_task", "pending", "event"}
    /\ Shown(view, idx, tasks_df, now)
    /\ edit_mode # <<view, idx>>
    /\ edit_mode' = <<view, idx>>
    /\ edit_target' = ids[idx]
    /\ last_op' = "enter_edit"
    /\ Render(tasks_df)
    /\ UNCHANGED <<tasks_df, ids, csv, outcome, scoreVars>>

\* The save button of an edit form (lines 150, 218, 308, 404): the form of
\* a Task sets four fields, the form of an Event three.
SaveEdit(view, idx, edit_name, edit_duration, edit_deadline, edit_category) ==
    /\ view \in {"event_today", "top_task", "pending", "event"}
    /\ Shown(view, idx, tasks_df, now)
    /\ edit_mode = <<view, idx>>
    /\ LET row == tasks_df[idx]
           edited ==
               [row EXCEPT !["name"] = edit_name,
                           !["duration"] = IF view \in {"top_task", "pending"}
                                           THEN edit_duration ELSE @,
                           !["deadline"] = edit_deadline,
                           !["category"] = edit_category]
           df == [tasks_df EXCEPT ![idx] = edited]
       IN  /\ tasks_df' = df
           /\ csv' = save_tasks(df)
           /\ Render(df)
    /\ edit_mode' = NoEdit
    /\ edit_target' = 0
    /\ last_op' = "edit"
    /\ UNCHANGED <<ids, outcome, scoreVars>>

\* The cancel button of an edit form (lines 158, 227, 317, 412)
CancelEdit(view, idx) ==
    /\ view \in {"event_today", "top_task", "pending", "event"}
    /\ Shown(view, idx, tasks_df, now)
    /\ edit_mode = <<view, idx>>
    /\ edit_mode' = NoEdit
    /\ edit_target' = 0
    /\ last_op' = "cancel"
    /\ Render(tasks_df)
    /\ UNCHANGED <<tasks_df, ids, csv, outcome, scoreVars>>

CompleteUnsaved(idx) ==
    /\ Shown("pending", idx, tasks_df, now)
    /\ edit_mode # <<"pending", idx>>
    /\ LET df == [tasks_df EXCEPT ![idx]["completed"] = "True"]
       IN  /\ tasks_df' = df
           /\ csv' = csv
           /\ Render(df)
    /\ last_op' = "complete"
    /\ UNCHANGED <<ids, edit_mode, edit_target, outcome, scoreVars>>

CompleteAnyKind(idx) ==
    /\ idx \in 1..Len(tasks_df)
    /\ tasks_df[idx]["completed"] # "True"
    /\ edit_mode # <<"pending", idx>>
    /\ LET df == [tasks_df EXCEPT ![idx]["completed"] = "True"]
       IN  /\ tasks_df' = df
           /\ csv' = save_tasks(df)
           /\ Render(df)
    /\ last_op' = "complete"
    /\ UNCHANGED <<ids, edit_mode, edit_target, outcome, scoreVars>>

\* The checkbox of a row of the pending list (lines 324 to 328)
Complete(idx) ==
    /\ Shown("pending", idx, tasks_df, now)
    /\ edit_mode # <<"pending", idx>>
    /\ LET df == [tasks_df EXCEPT ![idx]["completed"] = "True"]
       IN  /\ tasks_df' = df
           /\ csv' = save_tasks(df)
           /\ Render(df)
    /\ last_op' = "complete"
    /\ UNCHANGED <<ids, edit_mode, edit_target, outcome, scoreVars>>

\* The delete button of a row (lines 178, 340, 372, 431); the TOP3 has none.
Delete(view, idx) ==
    /\ view \in {"event_today", "pending", "completed", "event"}
    /\ Shown(view, idx, tasks_df, now)
    /\ edit_mode # <<view, idx>>
    /\ LET df == drop(tasks_df, idx)
       IN  /\ tasks_df' = df
           /\ csv' = save_tasks(df)
           /\ Render(df)
    /\ ids' = drop(ids, idx)
    /\ edit_target' = IF ids[idx] = edit_target THEN 0 ELSE edit_target
    /\ last_op' = "delete"
    /\ UNCHANGED <<edit_mode, outcome, scoreVars>>

\* The process is started again: a new session loads the file (lines 57 to
\* 61) and derives the index of each record from the order of the rows.
Restart ==
    /\ load_tasks(csv).status = "ok"
    /\ LET df == load_tasks(csv).df
       IN  /\ tasks_df' = df
           /\ ids' = [i \in 1..Len(df) |-> i]
           /\ Render(df)
    /\ edit_mode' = NoEdit
    /\ edit_target' = 0
    /\ last_op' = "restart"
    /\ UNCHANGED <<csv, outcome, scoreVars>>

\* Any other event of the page: the script runs and renders, nothing more.
Rerun ==
    /\ last_op' = "rerun"
    /\ Render(tasks_df)
    /\ UNCHANGED <<tasks_df, ids, csv, edit_mode, edit_target, outcome, scoreVars>>

\* Time passes while the page is left alone.
Tick ==
    /\ now + Minutes(1) \in Clock
    /\ now' = now + Minutes(1)
    /\ last_op' = "tick"
    /\ UNCHANGED <<tasks_df, ids, csv, edit_mode, edit_target, top_tasks,
                   df_pending, outcome, scoreVars>>

Views == {"event_today", "top_task", "pending", "completed", "event"}

Next ==
    \/ \E t \in ItemTypes, n \in Names, m \in Durations, d \in Deadlines,
          g \in Categories : AddTask(t, n, m, d, g)
    \/ \E v \in Views, i \in 1..MaxTasks : EnterEdit(v, i)
    \/ \E v \in Views, i \in 1..MaxTasks, n \in Names, m \in Durations,
          d \in Deadlines, g \in Categories : SaveEdit(v, i, n, m, d, g)
    \/ \E v \in Views, i \in 1..MaxTasks : CancelEdit(v, i)
    \/ \E i \in 1..MaxTasks : Complete(i)
    \/ \E v \in Views, i \in 1..MaxTasks : Delete(v, i)
    \/ Restart
    \/ Rerun
    \/ Tick

Spec == Init /\ [][Next]_vars

----------------------------------------------------------------------------
(* The scorer alone: calls of calculate_priority_score on inputs of the    *)
(* grid, each next call changing one thing: an earlier deadline, a shorter *)
(* duration, or a later clock.                                             *)

ScoreInit ==
    /\ AppIdle
    /\ outcome = NoOutcome
    /\ \E d \in ScoreDeadlines, m \in ScoreDurations, n \in ScoreNows :
         /\ call = NoCall(d, m, n)
         /\ prev = NoCall(d, m, n)

Score ==
    /\ ~call.made
    /\ call' = ScoreCall(call.deadline, call.duration, call.now)
    /\ prev' = prev
    /\ UNCHANGED <<appVars, outcome>>

ScoreEarlierDeadline ==
    /\ call.made
    /\ \E d \in ScoreDeadlines :
         /\ d < call.deadline
         /\ call' = ScoreCall(d, call.duration, call.now)
    /\ prev' = call
    /\ UNCHANGED <<appVars, outcome>>

ScoreShorterDuration ==
    /\ call.made
    /\ \E m \in ScoreDurations :
         /\ m < call.duration
         /\ call' = ScoreCall(call.deadline, m, call.now)
    /\ prev' = call
    /\ UNCHANGED <<appVars, outcome>>

ScoreLater ==
    /\ call.made
    /\ \E n \in ScoreNows :
         /\ n > call.now
         /\ call' = ScoreCall(call.deadline, call.duration, n)
    /\ prev' = call
    /\ UNCHANGED <<appVars, outcome>>

ScoreNext == Score \/ ScoreEarlierDeadline \/ ScoreShorterDuration \/ ScoreLater

ScoreSpec == ScoreInit /\ [][ScoreNext]_vars

----------------------------------------------------------------------------
(* Claims about the scorer, checked under ScoreSpec.                       *)

\* The minutes left of a call: hours_remaining * 60.
MinutesLeft(c) == c.deadline - c.now

\* The claimed score, in hundredths, from the minutes left and the duration,
\* written out case by case: 0.7 * urgency + 0.3 * efficiency with
\* efficiency = 50 / max(duration / 60, 0.5) = 3000 / max(duration, 30).
ClaimedScore(left, duration) ==
    LET D == IF duration > 30 THEN duration ELSE 30
        M == IF left > 60 THEN left ELSE 60
    IN  IF left <= 0
        THEN Round2(Rat(700 * D + 900, D))
        ELSE Round2(Rat(4200 * D + 900 * M, M * D))

\* C1: every call returns round(0.7 * urgency + 0.3 * efficiency, 2) with
\* urgency 1000 whenever the deadline is not in the future (exactly now
\* included), exactly 100 when it is at most one hour ahead, and
\* 100 / hours_remaining beyond; efficiency = 50 / max(duration / 60, 0.5).
\* The three scenarios of the specification come out as 100.0, 715.0, 14.5.
C1_ScoreFormula ==
    call.made =>
        /\ call.ret = ClaimedScore(MinutesLeft(call), call.duration)
        /\ MinutesLeft(call) <= 0 => RatEq(call.urgency_score, Rat(1000, 1))
        /\ (MinutesLeft(call) > 0 /\ MinutesLeft(call) <= 60)
               => RatEq(call.urgency_score, Rat(100, 1))
        /\ MinutesLeft(call) > 60
               => RatEq(call.urgency_score, Rat(6000, MinutesLeft(call)))
        /\ (MinutesLeft(call) = 30 /\ call.duration = 15) => call.ret = 10000
        /\ (MinutesLeft(call) = -60 /\ call.duration = 60) => call.ret = 71500
        /\ (MinutesLeft(call) = 600 /\ call.duration = 120) => call.ret = 1450

\* C1 witness: a call with the deadline exactly now, after one that was
\* overdue or ahead.
C1_Witness ==
    /\ call.made /\ prev.made
    /\ MinutesLeft(call) = 0
    /\ call.ret = 70000 + 1500

\* C2: with the duration fixed, of two calls that both have time left the
\* one with less time left never scores lower; with deadline and clock
\* fixed, the one with the shorter duration never scores lower.
C2_Monotone ==
    (call.made /\ prev.made) =>
        /\ ( /\ call.duration = prev.duration
             /\ MinutesLeft(call) > 0
             /\ MinutesLeft(prev) > 0
             /\ MinutesLeft(call) <= MinutesLeft(prev) )
               => call.ret >= prev.ret
        /\ ( /\ call.deadline = prev.deadline
             /\ call.now = prev.now
             /\ call.duration <= prev.duration )
               => call.ret >= prev.ret

\* C2 witness: a strictly higher score after the duration was shortened,
\* with time left.
C2_Witness ==
    /\ call.made /\ prev.made
    /\ call.deadline = prev.deadline /\ call.now = prev.now
    /\ call.duration < prev.duration
    /\ MinutesLeft(call) > 60
    /\ call.ret > prev.ret

\* C3 as claimed: for a duration in (0, 30] the efficiency term is 50.
C3_EfficiencyIs50 ==
    (call.made /\ call.duration > 0 /\ call.duration <= 30)
        => RatEq(call.efficiency_score, Rat(50, 1))

\* C3 as amended: for a duration in (0, 30] the efficiency term is exactly
\* 100 (50 divided by the floor of half an hour).
C3_EfficiencyIs100 ==
    (call.made /\ call.duration > 0 /\ call.duration <= 30)
        => RatEq(call.efficiency_score, Rat(100, 1))

\* C3 witness: a call with a duration of a quarter of an hour.
C3_Witness ==
    /\ call.made
    /\ call.duration = 15
    /\ RatEq(call.efficiency_score, Rat(100, 1))

----------------------------------------------------------------------------
(* The store alone: a session starts on some content of tasks.csv, loads   *)
(* it (lines 57, 58), and the frame it got is saved back.                  *)

\* The texts a cell of each column takes in the files of the model: a name
\* that read_csv takes for a missing value, a duration that is no number, a
\* deadline that is no timestamp, a completed that is empty (what an Event
\* is saved with) or no boolean.
CellTexts(column) ==
    IF column = "name" THEN {"a", "NA"}
    ELSE IF column = "duration" THEN {ToString(30), ToString(0), "abc"}
    ELSE IF column = "deadline" THEN {FormatTs(Minutes(1)), "soon"}
    ELSE IF column = "category" THEN {"Work"}
    ELSE IF column = "completed" THEN {"True", "False", "", "maybe"}
    ELSE {"Task", "Event"}

FileRows(columns) ==
    {[c \in columns |->
         IF c = "name" THEN n
         ELSE IF c = "duration" THEN m
         ELSE IF c = "deadline" THEN d
         ELSE IF c = "category" THEN g
         ELSE IF c = "completed" THEN b
         ELSE t] :
        n \in CellTexts("name"), m \in CellTexts("duration"),
        d \in CellTexts("deadline"), g \in CellTexts("category"),
        b \in CellTexts("completed"), t \in CellTexts("Type")}

\* The session starts on no file, or on a file of at most MaxFileRows rows
\* that lacks some of the back-filled columns, or none.
LoadInit ==
    /\ tasks_df = <<>>
    /\ ids = <<>>
    /\ \/ csv = MissingFile
       \/ \E lacking \in SUBSET BackfilledColumns, n \in 0..MaxFileRows :
             \E rows \in [1..n -> FileRows(Columns \ lacking)] :
                 csv = [exists |-> TRUE, columns |-> Columns \ lacking,
                        rows |-> rows]
    /\ edit_mode = NoEdit
    /\ now = 0
    /\ top_tasks = <<>>
    /\ df_pending = <<>>
    /\ last_op = "start"
    /\ edit_target = 0
    /\ outcome = NoOutcome
    /\ call = NoCall(0, 0, 0)
    /\ prev = NoCall(0, 0, 0)

\* if "tasks_df" not in st.session_state: tasks_df = load_tasks()
LoadTasks ==
    /\ outcome.status = "none"
    /\ LET r == load_tasks(csv)
       IN  /\ outcome' = [status |-> r.status, source |-> csv]
           /\ tasks_df' = r.df
           /\ ids' = [i \in 1..Len(r.df) |-> i]
    /\ last_op' = "load"
    /\ UNCHANGED <<csv, edit_mode, edit_target, now, top_tasks, df_pending,
                   scoreVars>>

\* save_tasks(load_tasks())
SaveLoaded ==
    /\ outcome.status = "ok"
    /\ last_op = "load"
    /\ csv' = save_tasks(tasks_df)
    /\ last_op' = "save"
    /\ UNCHANGED <<tasks_df, ids, edit_mode, edit_target, now, top_tasks,
                   df_pending, outcome, scoreVars>>

LoadNext == LoadTasks \/ SaveLoaded

LoadSpec == LoadInit /\ [][LoadNext]_vars

----------------------------------------------------------------------------
(* Claims about the store, checked under LoadSpec.                         *)

Range(f) == {f[i] : i \in DOMAIN f}

\* A content of tasks.csv that the application writes: all six columns, a
\* name, a whole duration, a timestamp, a Task with True or False and an
\* Event with an empty completed cell and the duration 0.
AppProducible(file) ==
    /\ file.exists
    /\ file.columns = Columns
    /\ \A i \in 1..Len(file.rows) :
         LET row == file.rows[i]
         IN  /\ row["name"] \in {"a", "NA"}
             /\ row["duration"] \in {ToString(30), ToString(0)}
             /\ row["deadline"] = FormatTs(Minutes(1))
             /\ row["Type"] = "Task" => row["completed"] \in {"True", "False"}
             /\ row["Type"] = "Event" =>
                    (row["completed"] = "" /\ row["duration"] = ToString(0))

\* C5: save_tasks(load_tasks()) on a non-empty file the application can have
\* written leaves the same records with the same value in every field.
C5_RoundTrip ==
    ( /\ last_op = "save"
      /\ AppProducible(outcome.source)
      /\ outcome.source.rows # <<>> )
        => /\ Len(csv.rows) = Len(outcome.source.rows)
           /\ Range(csv.rows) = Range(outcome.source.rows)

\* The cells present in the file are well formed: timestamps and numbers.
WellFormedCells(file) ==
    \A i \in 1..Len(file.rows) :
        /\ file.rows[i]["deadline"] = FormatTs(Minutes(1))
        /\ "duration" \in file.columns =>
               file.rows[i]["duration"] \in {ToString(30), ToString(0)}

\* C6: loading a non-empty file that lacks the Type column gives every
\* record Type = Task, one that lacks completed gives completed = False, one
\* that lacks duration gives duration 30, and the lack of a column never
\* makes the load fail.
C6_Backfill ==
    ( /\ last_op = "load"
      /\ outcome.source.exists
      /\ outcome.source.rows # <<>>
      /\ outcome.source.columns # Columns )
        => /\ WellFormedCells(outcome.source) => outcome.status = "ok"
           /\ outcome.status = "ok" =>
                /\ Len(tasks_df) = Len(outcome.source.rows)
                /\ \A i \in 1..Len(tasks_df) :
                     /\ "Type" \notin outcome.source.columns
                            => tasks_df[i]["Type"] = "Task"
                     /\ "completed" \notin outcome.source.columns
                            => tasks_df[i]["completed"] = "False"
                     /\ "duration" \notin outcome.source.columns
                            => tasks_df[i]["duration"] = 30

\* C6 witness: two records loaded from a file of the earliest shape, with
\* none of the three columns.
C6_Witness ==
    /\ last_op = "load"
    /\ outcome.status = "ok"
    /\ outcome.source.columns = Columns \ BackfilledColumns
    /\ Len(tasks_df) = 2
    /\ tasks_df[2]["duration"] = 30

\* A cell of the file that spells no timestamp, or no boolean.
UnparsableDeadline(file) ==
    \E i \in 1..Len(file.rows) : file.rows[i]["deadline"] = "soon"

UnparsableCompleted(file) ==
    /\ "completed" \in file.columns
    /\ \E i \in 1..Len(file.rows) : file.rows[i]["completed"] = "maybe"

\* C7: load_tasks fails exactly when the file exists and holds a deadline
\* that is no timestamp or a completed that is no boolean; a missing file
\* gives the empty set; no unparsable value becomes a loaded record.
C7_FailsExactlyOnUnparsable ==
    last_op = "load" =>
        /\ outcome.status = "error"
              <=> ( /\ outcome.source.exists
                    /\ ( \/ UnparsableDeadline(outcome.source)
                         \/ UnparsableCompleted(outcome.source) ) )
        /\ ~outcome.source.exists => (outcome.status = "ok" /\ tasks_df = <<>>)

\* The part of C7 that holds: a missing file loads as the empty set, and a
\* deadline that is no timestamp makes the load fail.
C7_MissingAndDeadline ==
    last_op = "load" =>
        /\ ~outcome.source.exists => (outcome.status = "ok" /\ tasks_df = <<>>)
        /\ UnparsableDeadline(outcome.source) => outcome.status = "error"

----------------------------------------------------------------------------
(* Claims about the script, checked under Spec.                            *)

\* C4: when an add, an edit, a completion or a deletion has returned, the
\* file holds the records of the frame, in the same order and with the same
\* value in every field (an Event's missing completed as an empty cell): no
\* change of the frame is left unsaved.
C4_PersistedEqualsMemory ==
    last_op \in {"add", "edit", "complete", "delete"} =>
    /\ Len(csv.rows) = Len(tasks_df)
    /\ csv.exists /\ csv.columns = Columns
    /\ \A i \in 1..Len(tasks_df) :
         /\ csv.rows[i]["name"] = tasks_df[i]["name"]
         /\ csv.rows[i]["duration"] = ToString(tasks_df[i]["duration"])
         /\ csv.rows[i]["deadline"] = FormatTs(tasks_df[i]["deadline"])
         /\ csv.rows[i]["category"] = tasks_df[i]["category"]
         /\ csv.rows[i]["Type"] = tasks_df[i]["Type"]
         /\ csv.rows[i]["completed"] =
                (IF tasks_df[i]["completed"] = "None" THEN ""
                 ELSE tasks_df[i]["completed"])

\* C4 witness: a Task has just been completed, below an Event, and the file
\* shows it completed.
C4_Witness ==
    /\ last_op = "complete"
    /\ Len(tasks_df) = 2
    /\ tasks_df[1]["Type"] = "Event"
    /\ tasks_df[2]["completed"] = "True"
    /\ csv.rows[2]["completed"] = "True"

PendingLabels == {i \in 1..Len(tasks_df) : IsPending(tasks_df[i])}

Min3(n) == IF n < 3 THEN n ELSE 3

\* C8: at every render the pending list holds exactly the Task rows not
\* completed, by non-increasing score, and the TOP3 shows the first
\* min(3, n) rows of that same ordering.
C8_Top3IsPrefixOfPendingList ==
    /\ Idx(df_pending) = PendingLabels
    /\ Len(df_pending) = Cardinality(PendingLabels)
    /\ \A k \in 1..(Len(df_pending) - 1) :
           df_pending[k].score >= df_pending[k + 1].score
    /\ Len(top_tasks) = Min3(Len(df_pending))
    /\ \A k \in 1..Len(top_tasks) : top_tasks[k].idx = df_pending[k].idx

\* What holds of each view by itself: each lists pending Task rows only, by
\* non-increasing score as it computed the scores, and the TOP3 has
\* min(3, n) of the n pending rows.
EachViewRanked ==
    /\ Idx(df_pending) = PendingLabels
    /\ Len(df_pending) = Cardinality(PendingLabels)
    /\ Idx(top_tasks) \subseteq PendingLabels
    /\ Len(top_tasks) = Min3(Cardinality(PendingLabels))
    /\ \A k \in 1..(Len(df_pending) - 1) :
           df_pending[k].score >= df_pending[k + 1].score
    /\ \A k \in 1..(Len(top_tasks) - 1) :
           top_tasks[k].score >= top_tasks[k + 1].score

\* C9: every record, in the frame and in the file, has a name that is not
\* empty once stripped.
C9_NamesNonEmpty ==
    /\ \A i \in 1..Len(tasks_df) : strip(tasks_df[i]["name"]) # ""
    /\ \A i \in 1..Len(csv.rows) : strip(csv.rows[i]["name"]) # ""

\* The add form alone keeps the names: a record just added has a name.
AddedNameNonEmpty ==
    last_op = "add" => strip(tasks_df[Len(tasks_df)]["name"]) # ""

Position(seq, u) == CHOOSE i \in 1..Len(seq) : seq[i] = u

\* C10: within a run of the process (no step loads the file again) a record
\* keeps its index from its creation to its deletion, whatever is done to
\* other records.
C10_StableIdentity ==
    [][last_op' # "restart" =>
           \A u \in Range(ids) \cap Range(ids') :
               Position(ids', u) = Position(ids, u)]_vars

\* C11: while the record an edit button was pressed on exists, the edit
\* form the page shows is the form of that record, and a save overwrites
\* the row of that record and no other, whatever was added, completed or
\* deleted in between.
C11_EditTargetsSelected ==
    [][/\ (/\ edit_target' # 0
           /\ Shown(edit_mode'[1], edit_mode'[2], tasks_df', now'))
          => ids'[edit_mode'[2]] = edit_target'
       /\ (last_op' = "edit" /\ edit_target # 0)
          => /\ ids' = ids
             /\ \A i \in 1..Len(tasks_df) :
                    ids[i] # edit_target => tasks_df'[i] = tasks_df[i]]_vars

\* What the code does keep: a save changes the row whose label edit_mode
\* holds and no other, and edit_mode is set only by an edit button and
\* cleared only by save, cancel or a new session.
SaveOverwritesNamedRow ==
    [][/\ last_op' = "edit"
          => /\ ids' = ids
             /\ \A i \in 1..Len(tasks_df) :
                    i # edit_mode[2] => tasks_df'[i] = tasks_df[i]
       /\ edit_mode' # edit_mode
          => last_op' \in {"enter_edit", "edit", "cancel", "restart"}]_vars

\* C12: within a run of the process (no step loads the file again) no
\* operation changes the kind of a record, and the only change of a
\* record's completed field is from false to true on a Task: an Event's is
\* never changed and a completed Task never returns to pending.
C12_CompletedOnlyFalseToTrue ==
    [][last_op' # "restart" =>
           \A u \in Range(ids) \cap Range(ids') :
               LET before == tasks_df[Position(ids, u)]
                   after == tasks_df'[Position(ids', u)]
               IN  /\ after["Type"] = before["Type"]
                   /\ \/ after["completed"] = before["completed"]
                      \/ /\ before["Type"] = "Task"
                         /\ before["completed"] = "False"
                         /\ after["completed"] = "True"]_vars

\* C12 witness: an Event has just been edited, next to a Task that was
\* completed before: the Event has no completed value still, and the Task
\* is still completed.
C12_Witness ==
    /\ last_op = "edit"
    /\ Len(tasks_df) = 2
    /\ \E i, j \in 1..2 :
         /\ tasks_df[i]["Type"] = "Event"
         /\ tasks_df[i]["completed"] = "None"
         /\ tasks_df[j]["Type"] = "Task"
         /\ tasks_df[j]["completed"] = "True"

----------------------------------------------------------------------------
(* The ranking alone: a session that starts on a file of two pending Tasks *)
(* with deadlines before, at and after the clock and durations from none   *)
(* to far beyond the 480 minutes the forms allow, and whose page is then   *)
(* rendered while time passes.                                             *)

RankDeadlines == {Minutes(k) : k \in 0..MaxRankDeadlineTick}

RankDurations == {Minutes(k) : k \in {0, 1, 2, 4, 31, 6000}}

RankInit ==
    /\ \E d1 \in RankDeadlines, d2 \in RankDeadlines,
          m1 \in RankDurations, m2 \in RankDurations :
         tasks_df = [i \in 1..2 |->
                       [name |-> "a",
                        duration |-> IF i = 1 THEN m1 ELSE m2,
                        deadline |-> IF i = 1 THEN d1 ELSE d2,
                        category |-> "Work",
                        completed |-> "False",
                        Type |-> "Task"]]
    /\ ids = <<1, 2>>
    /\ csv = save_tasks(tasks_df)
    /\ outcome = [status |-> "ok", source |-> csv]
    /\ edit_mode = NoEdit
    /\ edit_target = 0
    /\ now = 0
    /\ top_tasks = <<>>
    /\ df_pending = <<>>
    /\ last_op = "start"
    /\ call = NoCall(0, 0, 0)
    /\ prev = NoCall(0, 0, 0)

RankNext == Rerun \/ Tick

RankSpec == RankInit /\ [][RankNext]_vars

\* hours_remaining <= 0 at the clock
Overdue(row, clock) ==
    RatLeq(time_until_deadline(row["deadline"], clock), Rat(0, 1))

\* C13: of two pending Tasks the pending list has just scored at the same
\* clock, one overdue and one not, the overdue one has the strictly higher
\* score, whatever the two durations, and stands before the other in the
\* list.
C13_OverdueOutranks ==
    last_op # "tick" =>
    \A k \in 1..Len(df_pending), l \in 1..Len(df_pending) :
        ( /\ Overdue(tasks_df[df_pending[k].idx], now)
          /\ ~Overdue(tasks_df[df_pending[l].idx], now) )
        => /\ df_pending[k].score > df_pending[l].score
           /\ k < l

\* C13 witness: the list has ranked an overdue Task of the longest duration
\* (score 700.01) before a Task of a quarter of an hour due within the hour
\* (score 100), which stands first in the frame.
C13_Witness ==
    /\ last_op = "rerun"
    /\ Len(df_pending) = 2
    /\ df_pending[1].idx = 2
    /\ Overdue(tasks_df[2], now)
    /\ tasks_df[2]["duration"] = Minutes(6000)
    /\ df_pending[1].score = 70001
    /\ ~Overdue(tasks_df[1], now)
    /\ tasks_df[1]["duration"] = Minutes(1)
    /\ df_pending[2].score = 10000

\* The same of the TOP3, which scores at the clock the run starts on.
Top3OverdueOutranks ==
    [][last_op' # "tick" =>
       \A k \in 1..Len(top_tasks'), l \in 1..Len(top_tasks') :
           ( /\ Overdue(tasks_df'[top_tasks'[k].idx], now)
             /\ ~Overdue(tasks_df'[top_tasks'[l].idx], now) )
           => /\ top_tasks'[k].score > top_tasks'[l].score
              /\ k < l]_vars

====
